---------------------------- MODULE Spec2Model ----------------------------
(***************************************************************************)
(* Model of ulib/axlibc/c/socket.c (rukos): accept4, getsockopt,           *)
(* setsockopt and sendmsg on an LP64 target (LONG_MAX > INT_MAX, the       *)
(* repacking path of sendmsg).                                             *)
(*                                                                         *)
(* Memory is modelled in 4-byte cells: a control block of L bytes is a     *)
(* sequence of L/4 cells, and a struct cmsghdr is the four cells           *)
(* <<cmsg_len, __pad1, cmsg_level, cmsg_type>>.  Offsets and lengths are   *)
(* kept in bytes, as in the code.                                          *)
(*                                                                         *)
(* The primitives the file calls but does not define (accept, fcntl,       *)
(* ax_sendmsg, unimplemented) are the environment: each call is recorded   *)
(* and its response is chosen nondeterministically.                        *)
(***************************************************************************)
EXTENDS Integers, Sequences, FiniteSets, TLC

(***************************************************************************)
(* Bounds of the model.                                                    *)
(***************************************************************************)
\* records per generated control block
MaxRecs == 2
\* connections pending on each listening descriptor at start
QueueLen == 2

(***************************************************************************)
(* Program constants (LP64).                                               *)
(***************************************************************************)
SizeofInt == 4
SizeofLong == 8
SizeofSizeT == 8
SizeofCmsghdr == 16
SCM_MAX_FD == 255

Threads == {1, 2}
MainThread == CHOOSE t \in Threads : \A u \in Threads : t <= u

SOCK_CLOEXEC == "SOCK_CLOEXEC"
SOCK_NONBLOCK == "SOCK_NONBLOCK"
\* a flag bit outside SOCK_CLOEXEC | SOCK_NONBLOCK
SOCK_OTHER == "SOCK_OTHER"
FlagBits == {SOCK_CLOEXEC, SOCK_NONBLOCK, SOCK_OTHER}

(***************************************************************************)
(* Arithmetic of the CMSG macros.                                          *)
(***************************************************************************)
\* x & ~mask for mask = 2^k - 1, on non-negative x
AndNot(x, mask) == x - (x % (mask + 1))

\* #define __CMSG_LEN(cmsg) (((cmsg)->cmsg_len + sizeof(long) - 1) & ~(long)(sizeof(long) - 1))
CMSG_LEN_ALIGNED(cmsg_len) == AndNot(cmsg_len + SizeofLong - 1, SizeofLong - 1)

\* #define CMSG_ALIGN(len) (((len) + sizeof (size_t) - 1) & (size_t) ~(sizeof (size_t) - 1))
CMSG_ALIGN(len) == AndNot(len + SizeofSizeT - 1, SizeofSizeT - 1)

\* #define CMSG_SPACE(len) (CMSG_ALIGN (len) + CMSG_ALIGN (sizeof (struct cmsghdr)))
CMSG_SPACE(len) == CMSG_ALIGN(len) + CMSG_ALIGN(SizeofCmsghdr)

\* struct cmsghdr chbuf[CMSG_SPACE(255*sizeof(int))/sizeof(struct cmsghdr)+1]; sizeof chbuf
sizeofChbuf == (CMSG_SPACE(SCM_MAX_FD * SizeofInt) \div SizeofCmsghdr + 1) * SizeofCmsghdr

(***************************************************************************)
(* Cells and pointers.                                                     *)
(***************************************************************************)
\* number of cells that hold the first n bytes
CellsOf(n) == (n + SizeofInt - 1) \div SizeofInt
\* index of the cell at byte offset off (off a multiple of the cell size)
CellAt(off) == off \div SizeofInt + 1

\* content of a cell that was never written (indeterminate)
Indeterminate == 0 - 1

ReadCell(buf, i) == IF i \in 1..Len(buf) THEN buf[i] ELSE Indeterminate
WriteCell(buf, i, v) == IF i \in 1..Len(buf) THEN [buf EXCEPT ![i] = v] ELSE buf

\* a struct cmsghdr * into the control block, as a byte offset from its start
NullPtr == [null |-> TRUE, off |-> 0]
PtrTo(o) == [null |-> FALSE, off |-> o]

\* fields of struct cmsghdr, as cell indexes relative to the header's first cell
cmsg_len_at(off) == CellAt(off)
pad1_at(off) == CellAt(off) + 1
cmsg_level_at(off) == CellAt(off) + 2
cmsg_type_at(off) == CellAt(off) + 3


(***************************************************************************)
(* Inputs: control blocks as a caller builds them.                         *)
(***************************************************************************)
\* a record carrying n descriptors, its reserved field holding pad
SOL_SOCKET == "SOL_SOCKET"
SCM_RIGHTS == "SCM_RIGHTS"
LevelCode(l) == IF l = SOL_SOCKET THEN 1 ELSE 0
TypeCode(ty) == IF ty = SCM_RIGHTS THEN 1 ELSE 0

\* CMSG_LEN(len) of the caller: header plus payload, unaligned
RecLen(n) == SizeofCmsghdr + n * SizeofInt

\* what the caller left in the payload; alignment gaps hold 9
PayloadOf(n, k) == [i \in 1..n |-> 100 * k + i]

\* the cells of record number k with n descriptors; tight = without the
\* alignment gap after the payload
RecCells(n, pad, k, tight) ==
    <<RecLen(n), pad, LevelCode(SOL_SOCKET), TypeCode(SCM_RIGHTS)>>
        \o PayloadOf(n, k)
        \o IF tight THEN <<>>
           ELSE [i \in 1..CellsOf(CMSG_LEN_ALIGNED(RecLen(n)) - RecLen(n)) |-> 9]

RECURSIVE PackFrom(_, _, _, _)
PackFrom(counts, pad, k, tight) ==
    IF k > Len(counts) THEN <<>>
    ELSE RecCells(counts[k], pad, k, tight /\ k = Len(counts))
             \o PackFrom(counts, pad, k + 1, tight)

\* a control block of back-to-back records with the given descriptor counts
Pack(counts, pad, tight) ==
    [cells |-> PackFrom(counts, pad, 1, tight), counts |-> counts, pad |-> pad,
     len |-> Len(PackFrom(counts, pad, 1, tight)) * SizeofInt]

\* descriptor counts of the small records, and the values callers leave in
\* the reserved field
SmallCounts == {0, 1}
PadValues == {7, 2147483647}

RECURSIVE SeqsUpTo(_, _)
SeqsUpTo(S, n) ==
    IF n = 0 THEN {<<>>}
    ELSE LET shorter == SeqsUpTo(S, n - 1)
         IN  shorter \cup {Append(s, x) : s \in {q \in shorter : Len(q) = n - 1}, x \in S}

\* one record of the largest sizes: 253 and 255 descriptors, 400 descriptors,
\* a record that fills the scratch buffer exactly, and one cell more
FitCount == (sizeofChbuf - SizeofCmsghdr) \div SizeofInt
BigCounts == {253, SCM_MAX_FD, 400, FitCount, FitCount + 1}

SmallBlocks ==
    {Pack(cs, pad, tight) : cs \in SeqsUpTo(SmallCounts, MaxRecs) \ {<<>>},
                            pad \in PadValues, tight \in BOOLEAN}
BigBlocks == {Pack(<<n>>, 7, TRUE) : n \in BigCounts} \cup {Pack(<<253>>, 7, FALSE)}
EmptyBlock == [cells |-> <<>>, counts |-> <<>>, pad |-> 0, len |-> 0]
Blocks == SmallBlocks \cup BigBlocks \cup {EmptyBlock}

\* Control blocks of arbitrary contents: len bytes, not laid out as records.
\* The cell at offset 0 holds first, every other cell at a word-aligned
\* offset holds rest (the cells a record walk may read as cmsg_len) and the
\* cells between them hold 7.  A cell only partly within len stands for its
\* bytes within len.  The largest length is short of 2^32 - 1, which TLC
\* cannot hold; 64-bit arithmetic treats both alike.
RawLens == {8, 15, 16, 33, 40, 41, 56}
RawFirst == {0, 8, 15, 16, 17, 24, 25, 64, 2147483000}
RawRest == {0, 16, 20, 2147483000}
RawBlock(len, first, rest) ==
    [cells |-> [i \in 1..CellsOf(len) |->
                   IF i = 1 THEN first
                   ELSE IF ((i - 1) * SizeofInt) % SizeofLong = 0 THEN rest
                   ELSE 7],
     counts |-> <<>>, pad |-> 7, len |-> len]
RawBlocks == {RawBlock(l, a, b) : l \in RawLens, a \in RawFirst, b \in RawRest}

\* msg_controllen of a block
BlockLen(b) == b.len


(***************************************************************************)
(* State.                                                                  *)
(***************************************************************************)
VARIABLES
    pc,      \* per thread: where its current call stands
    call,    \* per thread: the arguments of its current call
    umem,    \* per thread: the caller's memory the arguments point to
    h,       \* per thread: sendmsg's working copy of the message header
    c,       \* per thread: sendmsg's record cursor
    ret,     \* per thread: accept4's ret, then the value the call returned
    chbuf,   \* per scratch-buffer instance: the cells written so far
    errno,   \* per thread
    sent,    \* per thread: the ax_sendmsg invocations of its current call
    prim,    \* per thread: the accept and fcntl invocations of its current call
    diag,    \* per thread: the diagnostics its current call emitted
    queue,   \* per listening descriptor: its pending connections
    fdtab    \* the descriptor table: entry fd holds descriptor fd's attributes

vars == <<pc, call, umem, h, c, ret, chbuf, errno, sent, prim, diag, queue, fdtab>>

\* the listening descriptor and the message descriptor of thread t
OwnFd(t) == t

UserPtr(t) == [kind |-> "user", slot |-> t]
ChbufPtr(s) == [kind |-> "chbuf", slot |-> s]

\* the struct msghdr a caller on thread t passes for control block b; its
\* reserved fields hold whatever the caller left there
MsgFor(t, b) ==
    [msg_name |-> "name", msg_namelen |-> SizeofCmsghdr,
     msg_iov |-> "iov", msg_iovlen |-> t, pad1 |-> b.pad,
     msg_control |-> UserPtr(t), msg_controllen |-> BlockLen(b),
     pad2 |-> b.pad, msg_flags |-> t]

NoMsg == MsgFor(MainThread, EmptyBlock)
NoPrim == [accepts |-> 0, acceptRet |-> 0, fcntls |-> <<>>]

NoCall ==
    [op |-> "none", fd |-> 0, flg |-> {}, msgnull |-> TRUE, block |-> EmptyBlock,
     sflags |-> 0, optval |-> "null", optlen |-> 0]
UMemFor(t, cl) ==
    [msg |-> MsgFor(t, cl.block), control |-> cl.block.cells,
     optval |-> IF cl.optval = "null" THEN 0 ELSE 5, optlen |-> cl.optlen]

\* values an out-of-bounds or null read may produce
GarbageInts == {0, 77}
\* results of the transmit primitive: failure, or a byte count
SendResults == {0 - 1, 12}

Accept4Calls ==
    {[NoCall EXCEPT !.op = "accept4", !.flg = f] : f \in SUBSET FlagBits}
SendmsgCalls ==
    {[NoCall EXCEPT !.op = "sendmsg", !.msgnull = FALSE, !.block = b, !.sflags = fl] :
        b \in Blocks, fl \in {0, 64}}
        \cup {[NoCall EXCEPT !.op = "sendmsg", !.msgnull = FALSE, !.block = b] :
                 b \in RawBlocks}
        \cup {[NoCall EXCEPT !.op = "sendmsg"]}
GetsockoptCalls ==
    {[NoCall EXCEPT !.op = "getsockopt", !.optval = v, !.optlen = l] :
        v \in {"null", "int"}, l \in {0, SizeofInt}}
SetsockoptCalls ==
    {[NoCall EXCEPT !.op = "setsockopt", !.optval = v, !.optlen = l] :
        v \in {"null", "short", "int"}, l \in {0, 1, SizeofInt}}
Calls == Accept4Calls \cup SendmsgCalls \cup GetsockoptCalls \cup SetsockoptCalls

\* the descriptors: one listening descriptor per thread, and room for one
\* accepted descriptor per thread
FDs == 1..(2 * Cardinality(Threads))
ClosedFd == [open |-> FALSE, conn |-> 0, cloexec |-> FALSE, nonblock |-> FALSE]
ListeningFd == [ClosedFd EXCEPT !.open = TRUE]
FreeFds == {fd \in FDs : ~fdtab[fd].open}
LowestFree == CHOOSE fd \in FreeFds : \A g \in FreeFds : fd <= g

\* the calls of the interleaved specification: sendmsg and accept4
ConcBlocks ==
    {Pack(cs, 7, FALSE) : cs \in SeqsUpTo(SmallCounts, MaxRecs) \ {<<>>}} \cup {EmptyBlock}
ConcCalls ==
    {cl \in Accept4Calls : SOCK_OTHER \in cl.flg => cl.flg = {SOCK_OTHER}}
        \cup {cl \in SendmsgCalls : cl.sflags = 0 /\ (cl.msgnull \/ cl.block \in ConcBlocks)}

Crashed == \E t \in Threads : pc[t] = "fault"

Init ==
    /\ pc = [t \in Threads |-> "idle"]
    /\ call = [t \in Threads |-> NoCall]
    /\ umem = [t \in Threads |-> UMemFor(t, NoCall)]
    /\ h = [t \in Threads |-> NoMsg]
    /\ c = [t \in Threads |-> NullPtr]
    /\ ret = [t \in Threads |-> 0]
    /\ chbuf = [s \in Threads |-> <<>>]
    /\ errno = [t \in Threads |-> "0"]
    /\ sent = [t \in Threads |-> <<>>]
    /\ prim = [t \in Threads |-> NoPrim]
    /\ diag = [t \in Threads |-> <<>>]
    /\ queue = [l \in Threads |-> [i \in 1..QueueLen |-> 10 * l + i]]
    /\ fdtab = [fd \in FDs |-> IF fd \in Threads THEN ListeningFd ELSE ClosedFd]

\* The caller on thread t closes the descriptor its last accept4 returned,
\* clears errno and makes one of the calls of S: a new frame.
CallFrom(t, S) ==
    /\ ~Crashed
    /\ pc[t] \in {"idle", "done"}
    /\ \E cl \in S :
        LET cl1 == [cl EXCEPT !.fd = OwnFd(t)] IN
        /\ call' = [call EXCEPT ![t] = cl1]
        /\ umem' = [umem EXCEPT ![t] = UMemFor(t, cl1)]
        /\ pc' = [pc EXCEPT ![t] = cl1.op]
    /\ errno' = [errno EXCEPT ![t] = "0"]
    /\ ret' = [ret EXCEPT ![t] = 0]
    /\ sent' = [sent EXCEPT ![t] = <<>>]
    /\ prim' = [prim EXCEPT ![t] = NoPrim]
    /\ diag' = [diag EXCEPT ![t] = <<>>]
    /\ fdtab' = IF call[t].op = "accept4" /\ ret[t] \in FDs
                THEN [fdtab EXCEPT ![ret[t]] = ClosedFd]
                ELSE fdtab
    /\ UNCHANGED <<h, c, chbuf, queue>>

Call(t) == CallFrom(t, Calls)
CallConc(t) == CallFrom(t, ConcCalls)


(***************************************************************************)
(* The primitives.                                                         *)
(***************************************************************************)
AcceptReady(fd) == fd \in DOMAIN queue /\ queue[fd] # <<>> /\ FreeFds # {}

\* what accept(fd, addr, len) returns: the new descriptor, or -1
AcceptResult(fd) == IF AcceptReady(fd) THEN LowestFree ELSE 0 - 1

\* accept(fd, addr, len) called by thread t: takes the first pending connection
\* into a new descriptor with no attribute set, or fails with EAGAIN
accept(t, fd) ==
    /\ prim' = [prim EXCEPT ![t].accepts = @ + 1, ![t].acceptRet = AcceptResult(fd)]
    /\ IF AcceptReady(fd)
       THEN /\ queue' = [queue EXCEPT ![fd] = Tail(@)]
            /\ fdtab' = [fdtab EXCEPT ![LowestFree] =
                            [ListeningFd EXCEPT !.conn = Head(queue[fd])]]
            /\ errno' = errno
       ELSE /\ errno' = [errno EXCEPT ![t] = "EAGAIN"]
            /\ UNCHANGED <<queue, fdtab>>

\* fcntl(fd, cmd, arg) called by thread t; ok is whether it succeeds
fcntl(t, fd, cmd, ok) ==
    /\ ok => fd \in FDs /\ fdtab[fd].open
    /\ prim' = [prim EXCEPT ![t].fcntls = Append(@, [fd |-> fd, cmd |-> cmd, ok |-> ok])]
    /\ IF ok
       THEN /\ fdtab' = [fdtab EXCEPT ![fd] =
                            IF cmd = "F_SETFD" THEN [@ EXCEPT !.cloexec = TRUE]
                                               ELSE [@ EXCEPT !.nonblock = TRUE]]
            /\ errno' = errno
       ELSE /\ errno' = [errno EXCEPT ![t] = "EBADF"]
            /\ fdtab' = fdtab

\* the first n bytes behind a control pointer
Deref(ptr, n) ==
    LET buf == IF ptr.kind = "user" THEN umem[ptr.slot].control ELSE chbuf[ptr.slot]
    IN  [i \in 1..CellsOf(n) |-> ReadCell(buf, i)]

\* ax_sendmsg(fd, msg, flags) called by thread t, returning r: the invocation is
\* recorded with the control bytes the message points to
ax_sendmsg(t, fd, msgnull, msg, flags, r) ==
    /\ sent' = [sent EXCEPT ![t] = Append(@,
                   [fd |-> fd, flags |-> flags, msgnull |-> msgnull, msg |-> msg,
                    result |-> r,
                    control |-> IF msgnull THEN <<>>
                                ELSE Deref(msg.msg_control, msg.msg_controllen)])]
    /\ IF r < 0 THEN errno' = [errno EXCEPT ![t] = "EIO"] ELSE errno' = errno

\* unimplemented(...): emits a diagnostic and signals "not implemented"
unimplemented(t, args) ==
    /\ diag' = [diag EXCEPT ![t] = Append(@, args)]
    /\ errno' = [errno EXCEPT ![t] = "ENOSYS"]

(***************************************************************************)
(* accept4                                                                 *)
(***************************************************************************)
\* (variant: the mask also lets another bit through)
InvalidFlags_WideMask(flg) == flg \ FlagBits # {}
\* if (flg & ~(SOCK_CLOEXEC | SOCK_NONBLOCK))
InvalidFlags(flg) == flg \ {SOCK_CLOEXEC, SOCK_NONBLOCK} # {}
\* (variant: the result of accept is not tested)
AcceptFailed_Ignored(r) == FALSE
\* if (ret < 0) return ret;
AcceptFailed(r) == r < 0
\* if (flg & SOCK_CLOEXEC)
WantsCloexec(flg) == SOCK_CLOEXEC \in flg
\* (variant: the second test repeats the first bit)
WantsNonblock_WrongBit(flg) == SOCK_CLOEXEC \in flg
\* if (flg & SOCK_NONBLOCK)
WantsNonblock(flg) == SOCK_NONBLOCK \in flg

\* lines 21-29: the flag tests and the call of accept
accept4_entry(t) ==
    /\ ~Crashed
    /\ pc[t] = "accept4"
    /\ LET flg == call[t].flg
           fd == call[t].fd
       IN  IF flg = {}
           THEN /\ accept(t, fd)
                /\ ret' = [ret EXCEPT ![t] = AcceptResult(fd)]
                /\ pc' = [pc EXCEPT ![t] = "done"]
           ELSE IF InvalidFlags(flg)
           THEN /\ errno' = [errno EXCEPT ![t] = "EINVAL"]
                /\ ret' = [ret EXCEPT ![t] = 0 - 1]
                /\ pc' = [pc EXCEPT ![t] = "done"]
                /\ UNCHANGED <<prim, queue, fdtab>>
           ELSE /\ accept(t, fd)
                /\ ret' = [ret EXCEPT ![t] = AcceptResult(fd)]
                /\ pc' = [pc EXCEPT ![t] =
                             IF AcceptFailed(AcceptResult(fd)) THEN "done"
                             ELSE "accept4_cloexec"]
    /\ UNCHANGED <<call, umem, h, c, chbuf, sent, diag>>

\* lines 30-31
accept4_cloexec(t) ==
    /\ ~Crashed
    /\ pc[t] = "accept4_cloexec"
    /\ IF WantsCloexec(call[t].flg)
       THEN \E ok \in BOOLEAN : fcntl(t, ret[t], "F_SETFD", ok)
       ELSE UNCHANGED <<prim, fdtab, errno>>
    /\ pc' = [pc EXCEPT ![t] = "accept4_nonblock"]
    /\ UNCHANGED <<call, umem, h, c, ret, chbuf, sent, diag, queue>>

\* lines 32-34
accept4_nonblock(t) ==
    /\ ~Crashed
    /\ pc[t] = "accept4_nonblock"
    /\ IF WantsNonblock(call[t].flg)
       THEN \E ok \in BOOLEAN : fcntl(t, ret[t], "F_SETFL", ok)
       ELSE UNCHANGED <<prim, fdtab, errno>>
    /\ pc' = [pc EXCEPT ![t] = "done"]
    /\ UNCHANGED <<call, umem, h, c, ret, chbuf, sent, diag, queue>>

(***************************************************************************)
(* getsockopt, setsockopt                                                  *)
(***************************************************************************)
\* (variant: the stub reports a zero option length through optlen)
getsockopt_WritesOptlen(t) ==
    /\ ~Crashed
    /\ pc[t] = "getsockopt"
    /\ unimplemented(t, [fn |-> "getsockopt", optval |-> 0, optlen |-> 0])
    /\ umem' = [umem EXCEPT ![t].optlen = 0]
    /\ ret' = [ret EXCEPT ![t] = 0 - 1]
    /\ pc' = [pc EXCEPT ![t] = "done"]
    /\ UNCHANGED <<call, h, c, chbuf, sent, prim, queue, fdtab>>

\* lines 37-41
getsockopt(t) ==
    /\ ~Crashed
    /\ pc[t] = "getsockopt"
    /\ unimplemented(t, [fn |-> "getsockopt", optval |-> 0, optlen |-> 0])
    /\ ret' = [ret EXCEPT ![t] = 0 - 1]
    /\ pc' = [pc EXCEPT ![t] = "done"]
    /\ UNCHANGED <<call, umem, h, c, chbuf, sent, prim, queue, fdtab>>

\* the outcomes of evaluating *(int *)optval: "fault", or the value read.
\* A null optval, or an object shorter than an int behind it, makes the read
\* undefined: it may trap, or produce any value.
ReadOptval(t) ==
    IF call[t].optval = "int"
    THEN {[fault |-> FALSE, v |-> umem[t].optval]}
    ELSE {[fault |-> TRUE, v |-> 0]} \cup {[fault |-> FALSE, v |-> g] : g \in GarbageInts}

\* lines 43-48
setsockopt(t) ==
    /\ ~Crashed
    /\ pc[t] = "setsockopt"
    /\ \E rd \in ReadOptval(t) :
        IF rd.fault
        THEN /\ pc' = [pc EXCEPT ![t] = "fault"]
             /\ UNCHANGED <<ret, errno, diag>>
        ELSE /\ unimplemented(t, [fn |-> "setsockopt", optval |-> rd.v,
                                  optlen |-> call[t].optlen])
             /\ ret' = [ret EXCEPT ![t] = 0]
             /\ pc' = [pc EXCEPT ![t] = "done"]
    /\ UNCHANGED <<call, umem, h, c, chbuf, sent, prim, queue, fdtab>>


(***************************************************************************)
(* sendmsg                                                                 *)
(***************************************************************************)
\* #define CMSG_FIRSTHDR(mhdr): the first record of a control block of
\* controllen bytes
CMSG_FIRSTHDR(controllen) ==
    IF controllen >= SizeofCmsghdr THEN PtrTo(0) ELSE NullPtr

\* (variant: a declared length below a header is not refused)
CMSG_NXTHDR_NoMinimum(buf, controllen, cm) ==
    LET cmsg_len == ReadCell(buf, cmsg_len_at(cm.off)) IN
    IF CMSG_LEN_ALIGNED(cmsg_len) + SizeofCmsghdr >= controllen - cm.off
    THEN NullPtr
    ELSE PtrTo(cm.off + CMSG_LEN_ALIGNED(cmsg_len))

\* #define CMSG_NXTHDR(mhdr, cmsg): the record after the one at cm, in a
\* control block of controllen bytes held in buf
CMSG_NXTHDR(buf, controllen, cm) ==
    LET cmsg_len == ReadCell(buf, cmsg_len_at(cm.off)) IN
    IF \/ cmsg_len < SizeofCmsghdr
       \/ CMSG_LEN_ALIGNED(cmsg_len) + SizeofCmsghdr >= controllen - cm.off
    THEN NullPtr
    ELSE PtrTo(cm.off + CMSG_LEN_ALIGNED(cmsg_len))

\* (variant: the scratch buffer has static storage, one instance in all)
chbufSlot_Static(t) == MainThread
\* struct cmsghdr chbuf[...]: automatic storage, one instance per call
chbufSlot(t) == t
\* (variant: the control block is repacked whatever its length)
HasControl_Always(controllen) == TRUE
\* if (h.msg_controllen)
HasControl(controllen) == controllen # 0
\* (variant: the capacity test lets one more cell through)
TooLarge_OneCellMore(controllen) == controllen > sizeofChbuf + SizeofInt
\* (variant: the capacity test also rejects a block of exactly the capacity)
TooLarge_AtCapacity(controllen) == controllen >= sizeofChbuf
\* if (h.msg_controllen > sizeof chbuf)
TooLarge(controllen) == controllen > sizeofChbuf

\* the frame of a call that has returned
PopFrame(t) ==
    /\ h' = [h EXCEPT ![t] = NoMsg]
    /\ c' = [c EXCEPT ![t] = NullPtr]
    /\ chbuf' = [chbuf EXCEPT ![chbufSlot(t)] = <<>>]

\* lines 74-82: the working copy and the capacity test
sendmsg_entry(t) ==
    /\ ~Crashed
    /\ pc[t] = "sendmsg"
    /\ IF call[t].msgnull
       THEN /\ pc' = [pc EXCEPT ![t] = "sendmsg_send"]
            /\ UNCHANGED <<h, c, chbuf, errno, ret>>
       ELSE LET h1 == [umem[t].msg EXCEPT !.pad1 = 0, !.pad2 = 0] IN
            IF ~HasControl(h1.msg_controllen)
            THEN /\ h' = [h EXCEPT ![t] = h1]
                 /\ pc' = [pc EXCEPT ![t] = "sendmsg_send"]
                 /\ UNCHANGED <<c, chbuf, errno, ret>>
            ELSE IF TooLarge(h1.msg_controllen)
            THEN /\ errno' = [errno EXCEPT ![t] = "ENOMEM"]
                 /\ ret' = [ret EXCEPT ![t] = 0 - 1]
                 /\ pc' = [pc EXCEPT ![t] = "done"]
                 /\ PopFrame(t)
            ELSE /\ h' = [h EXCEPT ![t] = h1]
                 /\ pc' = [pc EXCEPT ![t] = "sendmsg_memcpy"]
                 /\ UNCHANGED <<c, chbuf, errno, ret>>
    /\ UNCHANGED <<call, umem, sent, prim, diag, queue, fdtab>>

\* lines 83-85: memcpy, h.msg_control = chbuf, c = CMSG_FIRSTHDR(&h)
sendmsg_memcpy(t) ==
    /\ ~Crashed
    /\ pc[t] = "sendmsg_memcpy"
    /\ chbuf' = [chbuf EXCEPT ![chbufSlot(t)] =
                    Deref(h[t].msg_control, h[t].msg_controllen)]
    /\ h' = [h EXCEPT ![t].msg_control = ChbufPtr(chbufSlot(t))]
    /\ c' = [c EXCEPT ![t] = CMSG_FIRSTHDR(h[t].msg_controllen)]
    /\ pc' = [pc EXCEPT ![t] =
                 IF CMSG_FIRSTHDR(h[t].msg_controllen).null THEN "sendmsg_send"
                 ELSE "sendmsg_walk"]
    /\ UNCHANGED <<call, umem, ret, errno, sent, prim, diag, queue, fdtab>>

\* lines 85-86: one turn of the loop: c->__pad1 = 0; c = CMSG_NXTHDR(&h, c)
sendmsg_walk(t) ==
    /\ ~Crashed
    /\ pc[t] = "sendmsg_walk"
    /\ ~c[t].null
    /\ LET s == h[t].msg_control.slot
           zeroed == WriteCell(chbuf[s], pad1_at(c[t].off), 0)
           nxt == CMSG_NXTHDR(zeroed, h[t].msg_controllen, c[t])
       IN  /\ chbuf' = [chbuf EXCEPT ![s] = zeroed]
           /\ c' = [c EXCEPT ![t] = nxt]
           /\ pc' = [pc EXCEPT ![t] = IF nxt.null THEN "sendmsg_send" ELSE "sendmsg_walk"]
    /\ UNCHANGED <<call, umem, h, ret, errno, sent, prim, diag, queue, fdtab>>

\* line 90: return ax_sendmsg(fd, msg, flags)
sendmsg_send(t) ==
    /\ ~Crashed
    /\ pc[t] = "sendmsg_send"
    /\ \E r \in SendResults :
        /\ ax_sendmsg(t, call[t].fd, call[t].msgnull, h[t], call[t].sflags, r)
        /\ ret' = [ret EXCEPT ![t] = r]
    /\ pc' = [pc EXCEPT ![t] = "done"]
    /\ PopFrame(t)
    /\ UNCHANGED <<call, umem, prim, diag, queue, fdtab>>

(***************************************************************************)
(* Specifications.                                                         *)
(***************************************************************************)
Step(t) ==
    \/ Call(t)
    \/ accept4_entry(t)
    \/ accept4_cloexec(t)
    \/ accept4_nonblock(t)
    \/ getsockopt(t)
    \/ setsockopt(t)
    \/ sendmsg_entry(t)
    \/ sendmsg_memcpy(t)
    \/ sendmsg_walk(t)
    \/ sendmsg_send(t)

StepConc(t) ==
    \/ CallConc(t)
    \/ accept4_entry(t)
    \/ accept4_cloexec(t)
    \/ accept4_nonblock(t)
    \/ sendmsg_entry(t)
    \/ sendmsg_memcpy(t)
    \/ sendmsg_walk(t)
    \/ sendmsg_send(t)

\* one thread making calls one after the other
Next == Step(MainThread)
Spec == Init /\ [][Next]_vars

\* every thread making calls, their steps interleaved
NextConc == \E t \in Threads : StepConc(t)
SpecConc == Init /\ [][NextConc]_vars


(***************************************************************************)
(* What a call was given and what it did, read off the state.              *)
(***************************************************************************)
Returned(t, op) == call[t].op = op /\ pc[t] = "done"

\* msg_controllen as the caller passed it
ControlLen(t) == BlockLen(call[t].block)
SendsMsg(t) == call[t].op = "sendmsg" /\ ~call[t].msgnull

\* The records of a control block as its builder laid them out: record k
\* starts where record k-1 ended, rounded up to the word size.
RECURSIVE RecStart(_, _)
RecStart(counts, k) ==
    IF k = 1 THEN 0
    ELSE RecStart(counts, k - 1) + CMSG_ALIGN(RecLen(counts[k - 1]))

\* the cells holding the reserved field of the records of block b
PadCells(b) == {pad1_at(RecStart(b.counts, k)) : k \in 1..Len(b.counts)}

\* block b with the reserved field of every record zero, all else as given
Normalised(b) ==
    [i \in 1..Len(b.cells) |-> IF i \in PadCells(b) THEN 0 ELSE b.cells[i]]

\* b consists of N >= 1 well-formed records: each declared length is at
\* least a header and is the one stored in the record's first cell, each
\* start is word-aligned, and the last record ends within the block
WellFormed(b) ==
    /\ Len(b.counts) >= 1
    /\ \A k \in 1..Len(b.counts) :
        LET off == RecStart(b.counts, k) IN
        /\ off % SizeofLong = 0
        /\ b.cells[cmsg_len_at(off)] = RecLen(b.counts[k])
        /\ RecLen(b.counts[k]) >= SizeofCmsghdr
        /\ off + RecLen(b.counts[k]) <= BlockLen(b)

(***************************************************************************)
(* C1: on the repacking path, for a control block of 0 < L <= capacity     *)
(* bytes made of N >= 1 well-formed back-to-back records, the control      *)
(* block forwarded to ax_sendmsg has the reserved field of every record    *)
(* zero and every other cell equal to the caller's.                        *)
(***************************************************************************)
C1_ReservedZeroed ==
    \A t \in Threads :
        (/\ Returned(t, "sendmsg") /\ SendsMsg(t)
         /\ ControlLen(t) > 0 /\ ControlLen(t) <= sizeofChbuf
         /\ WellFormed(call[t].block))
        => /\ Len(sent[t]) = 1
           /\ sent[t][1].control = Normalised(call[t].block)


(***************************************************************************)
(* C2: when the control-data length exceeds sizeof chbuf, sendmsg returns  *)
(* -1 with errno = ENOMEM and ax_sendmsg is not invoked during the call.   *)
(***************************************************************************)
C2_OversizeRejected ==
    \A t \in Threads :
        (SendsMsg(t) /\ pc[t] # "idle" /\ ControlLen(t) > sizeofChbuf)
        => /\ sent[t] = <<>>
           /\ pc[t] \in {"sendmsg", "done"}
           /\ pc[t] = "done" => ret[t] = 0 - 1 /\ errno[t] = "ENOMEM"

C2_Witness ==
    \E t \in Threads :
        /\ Returned(t, "sendmsg") /\ SendsMsg(t)
        /\ ControlLen(t) = sizeofChbuf + SizeofInt
        /\ ret[t] = 0 - 1 /\ errno[t] = "ENOMEM" /\ sent[t] = <<>>

(***************************************************************************)
(* C3: accept4 with flags f, a subset of {SOCK_CLOEXEC, SOCK_NONBLOCK},    *)
(* on a listening descriptor with a pending connection returns a new       *)
(* descriptor whose close-on-exec attribute is set exactly when            *)
(* SOCK_CLOEXEC is in f and whose non-blocking attribute is set exactly    *)
(* when SOCK_NONBLOCK is in f.                                             *)
(***************************************************************************)
ValidFlags(t) == call[t].flg \subseteq {SOCK_CLOEXEC, SOCK_NONBLOCK}
Accepted(t) == Returned(t, "accept4") /\ ValidFlags(t) /\ prim[t].acceptRet >= 0

C3_AttributesMatchFlags ==
    \A t \in Threads :
        Accepted(t)
        => /\ ret[t] \in FDs /\ fdtab[ret[t]].open
           /\ fdtab[ret[t]].cloexec <=> SOCK_CLOEXEC \in call[t].flg
           /\ fdtab[ret[t]].nonblock <=> SOCK_NONBLOCK \in call[t].flg

\* the fcntl calls of thread t's current call that set attribute cmd
FcntlCalls(t, cmd) == {i \in 1..Len(prim[t].fcntls) : prim[t].fcntls[i].cmd = cmd}
FcntlSucceeded(t, cmd) ==
    \E i \in FcntlCalls(t, cmd) :
        prim[t].fcntls[i].ok /\ prim[t].fcntls[i].fd = ret[t]

\* C3 as amended: the returned descriptor is new and open; each attribute is
\* requested through exactly one fcntl call on it when its bit is in f and
\* through none otherwise, and is set exactly when its bit is in f and that
\* fcntl call succeeded.
C3_AttributesMatchAppliedFlags ==
    \A t \in Threads :
        Accepted(t)
        => /\ ret[t] \in FDs /\ fdtab[ret[t]].open /\ ret[t] # call[t].fd
           /\ Cardinality(FcntlCalls(t, "F_SETFD"))
                 = IF SOCK_CLOEXEC \in call[t].flg THEN 1 ELSE 0
           /\ Cardinality(FcntlCalls(t, "F_SETFL"))
                 = IF SOCK_NONBLOCK \in call[t].flg THEN 1 ELSE 0
           /\ \A i \in 1..Len(prim[t].fcntls) : prim[t].fcntls[i].fd = ret[t]
           /\ fdtab[ret[t]].cloexec <=> FcntlSucceeded(t, "F_SETFD")
           /\ fdtab[ret[t]].nonblock <=> FcntlSucceeded(t, "F_SETFL")

C3_Witness ==
    \E t \in Threads :
        /\ Accepted(t)
        /\ call[t].flg = {SOCK_CLOEXEC, SOCK_NONBLOCK}
        /\ fdtab[ret[t]].cloexec /\ fdtab[ret[t]].nonblock

(***************************************************************************)
(* C4: with a flag bit outside SOCK_CLOEXEC | SOCK_NONBLOCK, accept4       *)
(* returns -1 with errno = EINVAL without calling accept or fcntl: the     *)
(* pending-connection queues and all descriptor attributes are as before,  *)
(* so the next accept4 with valid flags finds the connection it would      *)
(* have found without the rejected calls.                                  *)
(***************************************************************************)
BadFlags(t) == call[t].flg \ {SOCK_CLOEXEC, SOCK_NONBLOCK} # {}

C4_InvalidFlagsRejected ==
    [][\A t \in Threads :
          (call[t].op = "accept4" /\ pc[t] = "accept4" /\ BadFlags(t) /\ pc'[t] # pc[t])
          => /\ pc'[t] = "done"
             /\ ret'[t] = 0 - 1
             /\ errno'[t] = "EINVAL"
             /\ prim'[t] = NoPrim
             /\ UNCHANGED <<queue, fdtab>>]_vars

C4_Witness ==
    \E t \in Threads :
        /\ Returned(t, "accept4") /\ BadFlags(t)
        /\ SOCK_CLOEXEC \in call[t].flg
        /\ ret[t] = 0 - 1 /\ errno[t] = "EINVAL"
        /\ AcceptReady(call[t].fd)
        /\ Len(queue[call[t].fd]) < QueueLen


(***************************************************************************)
(* C5: for a non-null message with control-data length zero, sendmsg       *)
(* invokes ax_sendmsg exactly once, with the caller's fd and flags and a   *)
(* message whose peer address and length, I/O segments and count, control  *)
(* pointer, control length (zero) and message flags are the caller's, and  *)
(* returns its result; nothing of the scratch buffer is passed.            *)
(***************************************************************************)
SameMessageFields(m, n) ==
    /\ m.msg_name = n.msg_name /\ m.msg_namelen = n.msg_namelen
    /\ m.msg_iov = n.msg_iov /\ m.msg_iovlen = n.msg_iovlen
    /\ m.msg_control = n.msg_control /\ m.msg_controllen = n.msg_controllen
    /\ m.msg_flags = n.msg_flags

C5_ZeroControlPassthrough ==
    \A t \in Threads :
        (Returned(t, "sendmsg") /\ SendsMsg(t) /\ ControlLen(t) = 0)
        => /\ Len(sent[t]) = 1
           /\ sent[t][1].fd = call[t].fd
           /\ sent[t][1].flags = call[t].sflags
           /\ ~sent[t][1].msgnull
           /\ SameMessageFields(sent[t][1].msg, MsgFor(t, call[t].block))
           /\ sent[t][1].msg.msg_control = UserPtr(t)
           /\ sent[t][1].control = <<>>
           /\ ret[t] = sent[t][1].result

C5_Witness ==
    \E t \in Threads :
        /\ Returned(t, "sendmsg") /\ SendsMsg(t) /\ ControlLen(t) = 0
        /\ Len(sent[t]) = 1 /\ ret[t] > 0

(***************************************************************************)
(* C6: sizeof chbuf is at least the space of one record carrying 255       *)
(* descriptors; a block holding one record with 253 descriptors is         *)
(* forwarded to ax_sendmsg, so is a block of exactly sizeof chbuf bytes,   *)
(* and a block holding one record with 400 descriptors fails with ENOMEM.  *)
(***************************************************************************)
Forwarded(t) ==
    /\ Len(sent[t]) = 1
    /\ sent[t][1].msg.msg_controllen = ControlLen(t)
    /\ Len(sent[t][1].control) = CellsOf(ControlLen(t))
    /\ ret[t] = sent[t][1].result

C6_Capacity ==
    /\ sizeofChbuf >= CMSG_SPACE(255 * SizeofInt)
    /\ \A t \in Threads :
        (Returned(t, "sendmsg") /\ SendsMsg(t))
        => /\ ControlLen(t) \in {RecLen(253), CMSG_SPACE(253 * SizeofInt)} => Forwarded(t)
           /\ ControlLen(t) = sizeofChbuf => Forwarded(t)
           /\ ControlLen(t) = RecLen(400)
                 => sent[t] = <<>> /\ ret[t] = 0 - 1 /\ errno[t] = "ENOMEM"

C6_Witness ==
    \E t \in Threads :
        /\ Returned(t, "sendmsg") /\ SendsMsg(t)
        /\ call[t].block.counts = <<253>>
        /\ ControlLen(t) = CMSG_SPACE(253 * SizeofInt)
        /\ Forwarded(t)
        /\ sent[t][1].control[pad1_at(0)] = 0

(***************************************************************************)
(* C7: getsockopt returns -1 with the error code "not implemented" for     *)
(* every descriptor, level, option name, buffer and length pointer, and    *)
(* the memory behind optval and optlen is the same after the call as       *)
(* before it.                                                              *)
(***************************************************************************)
C7_GetsockoptUnimplemented ==
    \A t \in Threads :
        Returned(t, "getsockopt")
        => /\ ret[t] = 0 - 1
           /\ errno[t] = "ENOSYS"
           /\ umem[t] = UMemFor(t, call[t])

C7_Witness ==
    \E t \in Threads :
        /\ Returned(t, "getsockopt")
        /\ call[t].optval = "int" /\ call[t].optlen = SizeofInt
        /\ ret[t] = 0 - 1

(***************************************************************************)
(* C8: setsockopt returns 0 on any input (any option-value pointer and     *)
(* option length, also a length below sizeof(int)), never fails with       *)
(* invalid-argument and changes no option state: a getsockopt made after   *)
(* it fails as it would have without it.                                   *)
(***************************************************************************)
C8_SetsockoptSucceeds ==
    \A t \in Threads :
        /\ call[t].op = "setsockopt" => pc[t] # "fault"
        /\ Returned(t, "setsockopt") => ret[t] = 0 /\ errno[t] # "EINVAL"
        /\ Returned(t, "getsockopt") => ret[t] = 0 - 1 /\ errno[t] = "ENOSYS"

(***************************************************************************)
(* C9: with flags zero or a subset of {SOCK_CLOEXEC, SOCK_NONBLOCK},       *)
(* accept4 calls accept exactly once and returns the value accept          *)
(* returned: a failure of accept is returned with its errno and fcntl is   *)
(* not called; an accepted descriptor is returned, open, also when an      *)
(* fcntl call fails.                                                       *)
(***************************************************************************)
C9_AcceptResultReturned ==
    \A t \in Threads :
        (Returned(t, "accept4") /\ ValidFlags(t))
        => /\ prim[t].accepts = 1
           /\ ret[t] = prim[t].acceptRet
           /\ prim[t].acceptRet < 0
                 => ret[t] = 0 - 1 /\ prim[t].fcntls = <<>> /\ errno[t] = "EAGAIN"
           /\ prim[t].acceptRet >= 0
                 => ret[t] \in FDs /\ fdtab[ret[t]].open /\ fdtab[ret[t]].conn # 0

C9_Witness ==
    \E t \in Threads :
        /\ Accepted(t)
        /\ call[t].flg = {SOCK_CLOEXEC, SOCK_NONBLOCK}
        /\ \A i \in 1..Len(prim[t].fcntls) : ~prim[t].fcntls[i].ok
        /\ Len(prim[t].fcntls) = 2
        /\ fdtab[ret[t]].open


(***************************************************************************)
(* C10: in any interleaving of sendmsg and accept4 calls made by           *)
(* different threads on different descriptors, each call forwards the      *)
(* message and control bytes, applies the descriptor flags and returns     *)
(* the value that it does when run alone against the same primitive        *)
(* responses; the working copy and the scratch buffer belong to the call,  *)
(* and no call reads or writes those of another.                           *)
(***************************************************************************)
\* the record walk of lines 85-86 run without interruption on buf
RECURSIVE WalkAlone(_, _, _)
WalkAlone(buf, controllen, cm) ==
    IF cm.null THEN buf
    ELSE LET zeroed == WriteCell(buf, pad1_at(cm.off), 0)
         IN  WalkAlone(zeroed, controllen, CMSG_NXTHDR(zeroed, controllen, cm))

\* the control bytes a sendmsg call of thread t forwards when run alone
ControlAlone(t) ==
    IF call[t].msgnull THEN <<>>
    ELSE WalkAlone(call[t].block.cells, ControlLen(t), CMSG_FIRSTHDR(ControlLen(t)))

SendmsgAsAlone(t) ==
    IF SendsMsg(t) /\ ControlLen(t) > sizeofChbuf
    THEN sent[t] = <<>> /\ ret[t] = 0 - 1 /\ errno[t] = "ENOMEM"
    ELSE /\ Len(sent[t]) = 1
         /\ sent[t][1].fd = call[t].fd
         /\ sent[t][1].flags = call[t].sflags
         /\ sent[t][1].msgnull = call[t].msgnull
         /\ sent[t][1].control = ControlAlone(t)
         /\ ret[t] = sent[t][1].result
         /\ SendsMsg(t) =>
               LET m == sent[t][1].msg
                   u == MsgFor(t, call[t].block)
               IN  /\ m.msg_name = u.msg_name /\ m.msg_namelen = u.msg_namelen
                   /\ m.msg_iov = u.msg_iov /\ m.msg_iovlen = u.msg_iovlen
                   /\ m.msg_controllen = u.msg_controllen
                   /\ m.msg_flags = u.msg_flags
                   /\ m.pad1 = 0 /\ m.pad2 = 0
                   /\ m.msg_control.kind = IF ControlLen(t) = 0 THEN "user" ELSE "chbuf"

Accept4AsAlone(t) ==
    IF BadFlags(t)
    THEN ret[t] = 0 - 1 /\ errno[t] = "EINVAL" /\ prim[t] = NoPrim
    ELSE /\ prim[t].accepts = 1
         /\ ret[t] = prim[t].acceptRet
         /\ ret[t] < 0 => prim[t].fcntls = <<>>
         /\ ret[t] >= 0 =>
               /\ \A i \in 1..Len(prim[t].fcntls) : prim[t].fcntls[i].fd = ret[t]
               /\ Cardinality(FcntlCalls(t, "F_SETFD"))
                     = IF SOCK_CLOEXEC \in call[t].flg THEN 1 ELSE 0
               /\ Cardinality(FcntlCalls(t, "F_SETFL"))
                     = IF SOCK_NONBLOCK \in call[t].flg THEN 1 ELSE 0
               /\ fdtab[ret[t]].open
               /\ fdtab[ret[t]].cloexec <=> FcntlSucceeded(t, "F_SETFD")
               /\ fdtab[ret[t]].nonblock <=> FcntlSucceeded(t, "F_SETFL")

\* the scratch buffer of a thread that is not between memcpy and return
\* holds nothing, and a working copy points to the scratch buffer of its own
\* call only
FramesApart ==
    \A t \in Threads :
        /\ pc[t] \notin {"sendmsg_walk", "sendmsg_send"} => chbuf[t] = <<>>
        /\ h[t].msg_control.kind = "chbuf" => h[t].msg_control.slot = t

C10_CallsDoNotInteract ==
    /\ FramesApart
    /\ \A t \in Threads :
        /\ Returned(t, "sendmsg") => SendmsgAsAlone(t)
        /\ Returned(t, "accept4") => Accept4AsAlone(t)

C10_Witness ==
    \E t \in Threads, u \in Threads :
        /\ t # u
        /\ pc[t] = "sendmsg_walk" /\ c[t].off > 0 /\ Len(chbuf[t]) > 0
        /\ pc[u] = "accept4_nonblock" /\ call[u].flg = {SOCK_CLOEXEC, SOCK_NONBLOCK}
        /\ fdtab[ret[u]].cloexec


(***************************************************************************)
(* C11: on the repacking path, for a control block of 0 < L <= capacity    *)
(* bytes of arbitrary contents (declared record lengths zero, below a      *)
(* header, not word-aligned, or past the end of the block), the record     *)
(* walk of sendmsg ends after finitely many turns, visits no record when   *)
(* L is below one header, and zeroes the reserved field only of headers    *)
(* that lie wholly within the first L bytes of the scratch buffer; the     *)
(* caller's message header and control buffer are never written.           *)
(***************************************************************************)
Repacks(t) ==
    /\ SendsMsg(t) /\ pc[t] # "idle"
    /\ ControlLen(t) > 0 /\ ControlLen(t) <= sizeofChbuf

\* the header at byte offset off lies wholly within the first L bytes of
\* thread t's control block, at a word-aligned offset
HeaderInside(t, off) ==
    /\ off >= 0
    /\ off % SizeofLong = 0
    /\ off + SizeofCmsghdr <= ControlLen(t)

\* the cells of buf and of orig differ at most in reserved fields of
\* headers inside the block, which hold zero in buf
OnlyPadsZeroed(t, buf, orig) ==
    /\ Len(buf) = Len(orig)
    /\ \A i \in 1..Len(orig) :
        buf[i] # orig[i]
        => /\ buf[i] = 0
           /\ \E off \in 0..ControlLen(t) : HeaderInside(t, off) /\ i = pad1_at(off)

C11_WalkState ==
    \A t \in Threads :
        Repacks(t)
        => /\ umem[t] = UMemFor(t, call[t])
           /\ ControlLen(t) < SizeofCmsghdr => pc[t] # "sendmsg_walk"
           /\ pc[t] = "sendmsg_walk"
                 => /\ ~c[t].null
                    /\ HeaderInside(t, c[t].off)
                    /\ h[t].msg_control = ChbufPtr(t)
                    /\ OnlyPadsZeroed(t, chbuf[t], call[t].block.cells)
           /\ pc[t] = "done"
                 => /\ Len(sent[t]) = 1
                    /\ OnlyPadsZeroed(t, sent[t][1].control, call[t].block.cells)
                    /\ ControlLen(t) < SizeofCmsghdr
                          => sent[t][1].control = call[t].block.cells

\* one turn of the loop writes the reserved field of the header at the
\* cursor and nothing else, and ends the walk or moves the cursor forward by
\* at least a header: at most L / sizeof(struct cmsghdr) turns
C11_WalkTurn ==
    \A t \in Threads :
        (Repacks(t) /\ pc[t] = "sendmsg_walk" /\ <<pc[t], c[t], chbuf[t]>>' # <<pc[t], c[t], chbuf[t]>>)
        => /\ chbuf'[t] = WriteCell(chbuf[t], pad1_at(c[t].off), 0)
           /\ UNCHANGED <<umem, h>>
           /\ \/ pc'[t] = "sendmsg_send" /\ c'[t].null
              \/ /\ pc'[t] = "sendmsg_walk" /\ ~c'[t].null
                 /\ c'[t].off >= c[t].off + SizeofCmsghdr

C11_WalkStaysInside == []C11_WalkState /\ [][C11_WalkTurn]_vars

C11_Witness ==
    \E t \in Threads :
        /\ Returned(t, "sendmsg") /\ Repacks(t)
        /\ call[t].block \in RawBlocks
        /\ ControlLen(t) = 56
        /\ call[t].block.cells[1] = 17
        /\ Len(sent[t]) = 1
        /\ sent[t][1].control[pad1_at(0)] = 0
        /\ sent[t][1].control[pad1_at(24)] = 0
        /\ sent[t][1].control[pad1_at(16)] = 7

=============================================================================
